---------------------------- MODULE Spec2Model ----------------------------
(* A model of src/skip_list/skip_list.h: a skip list with spans, stored as  *)
(* byte offsets inside one caller-supplied buffer.  The buffer is the       *)
(* variable mem (header fields and node slots keyed by their byte offset),  *)
(* the SkipList objects are the variable inst (their mem_header_ pointer).  *)
(* The element type is T = int with Compare = std::less<int>, laid out for  *)
(* an LP64 target.  Every operation is a function from the buffer and its   *)
(* arguments to the new buffer and the returned value, written loop by loop *)
(* as in the source; the actions apply these functions.                     *)
EXTENDS Integers, Sequences, FiniteSets, TLC

(***************************************************************************)
(* Bounds of the model.                                                    *)
(***************************************************************************)
\* the caller's buffer has room for the head sentinel and MaxLen elements
MaxLen == 3
\* elements are drawn from 1..MaxElem
MaxElem == 2
\* random_level() draws from 1..MaxLevel (never above MAX_LEVEL_NUM)
MaxLevel == 2

(***************************************************************************)
(* Program constants and layout.                                           *)
(***************************************************************************)
MAX_LEVEL_NUM == 32
MAGIC_NUM == 305419896
\* sizeof(MemHeader): uint32_t + padding, five size_t, SLInfo (24 bytes)
SizeofMemHeader == 72
\* sizeof(MemNode): int + padding, size_t, 32 SLLevel of 16 bytes, size_t
SizeofMemNode == 536

mem_header_size == ((SizeofMemHeader + 7) \div 8) * 8
mem_node_size == ((SizeofMemNode + 7) \div 8) * 8

\* A uint32_t is kept as the integer of the same 32-bit pattern (TLC's
\* integers are 32-bit two's complement), so 2^32 - 1 is written 0 - 1; the
\* values drawn are small naturals and UINT32_MAX.
UINT32_MAX == 0 - 1
\* x + 1 in uint32_t arithmetic
U32Inc(x) == IF x = UINT32_MAX THEN 0 ELSE x + 1

\* line 61: max_sl_len + 1 is uint32_t arithmetic and is widened to size_t
\* only after the addition
max_mem_size(max_sl_len) == mem_header_size + U32Inc(max_sl_len) * mem_node_size

cmp(a, b) == a < b

NULL == "nullptr"
BUF == "mem"
Handles == {1, 2}
Elements == 1..MaxElem
\* random_level(): 1..MAX_LEVEL_NUM, here cut at MaxLevel
DrawnLevels == 1..(IF MaxLevel < MAX_LEVEL_NUM THEN MaxLevel ELSE MAX_LEVEL_NUM)
\* The entries of level[MAX_LEVEL_NUM] that a drawn level can reach.  No loop
\* of the source reads or writes level[i] for i >= level_num, and level_num
\* never exceeds the largest drawn level, so the entries above it stay at the
\* zero init wrote and are left out of the state.
Levels == 0..((IF MaxLevel < MAX_LEVEL_NUM THEN MaxLevel ELSE MAX_LEVEL_NUM) - 1)

\* the bytes the caller really owns, and the node slots that fit in them
BufSize == max_mem_size(MaxLen)
Slots == {mem_header_size + k * mem_node_size : k \in 0..MaxLen}
\* the mem_size values a caller passes (never more than it owns): room for
\* no element and a few bytes over, for exactly one element, for exactly MaxLen
MemSizes == {max_mem_size(0) + 8, max_mem_size(1), max_mem_size(MaxLen)}
\* the max_sl_len values a caller passes
SlLens == {0, MaxLen, MaxLen + 1}

ZeroLevel == [forward |-> 0, span |-> 0]
ZeroNode == [element |-> 0, backword |-> 0,
             level |-> [i \in Levels |-> ZeroLevel], next |-> 0]
ZeroArray == [i \in Levels |-> 0]

\* a buffer of zero bytes, as the caller hands it over before any init
ZeroMem == [magic_num |-> 0, mem_size |-> 0, alloc_size |-> 0,
            header_size |-> 0, node_size |-> 0, free_list |-> 0,
            sl_info |-> [head |-> 0, tail |-> 0, level_num |-> 0, length |-> 0],
            node |-> [r \in Slots |-> ZeroNode]]

\* twin is a second buffer, used only where two runs are set side by side
VARIABLES mem, inst, rt, twin
vars == <<mem, inst, rt, twin>>

(***************************************************************************)
(* Node allocator.                                                         *)
(***************************************************************************)
\* alloc_node with a slip: alloc_size is advanced before the space check
alloc_node_bump(m) ==
    IF m.free_list # 0
    THEN [pos |-> m.free_list,
          m |-> [m EXCEPT !.free_list = m.node[m.free_list].next,
                          !.node[m.free_list] = ZeroNode]]
    ELSE IF m.alloc_size + m.node_size <= m.mem_size
    THEN [pos |-> m.alloc_size,
          m |-> [m EXCEPT !.alloc_size = m.alloc_size + m.node_size,
                          !.node[m.alloc_size] = ZeroNode]]
    ELSE [pos |-> 0, m |-> [m EXCEPT !.alloc_size = m.alloc_size + m.node_size]]

\* alloc_node with a slip: the free-list head is handed out but stays the
\* free-list head
alloc_node_nopop(m) ==
    IF m.free_list # 0
    THEN [pos |-> m.free_list,
          m |-> [m EXCEPT !.node[m.free_list] =
                              [ZeroNode EXCEPT !.next = m.node[m.free_list].next]]]
    ELSE IF m.alloc_size + m.node_size <= m.mem_size
    THEN [pos |-> m.alloc_size,
          m |-> [m EXCEPT !.alloc_size = m.alloc_size + m.node_size,
                          !.node[m.alloc_size] = ZeroNode]]
    ELSE [pos |-> 0, m |-> m]

\* alloc_node with a slip: fresh bytes are taken first, the free list only
\* when none are left
alloc_node_fresh(m) ==
    IF m.alloc_size + m.node_size <= m.mem_size
    THEN [pos |-> m.alloc_size,
          m |-> [m EXCEPT !.alloc_size = m.alloc_size + m.node_size,
                          !.node[m.alloc_size] = ZeroNode]]
    ELSE IF m.free_list # 0
    THEN [pos |-> m.free_list,
          m |-> [m EXCEPT !.free_list = m.node[m.free_list].next,
                          !.node[m.free_list] = ZeroNode]]
    ELSE [pos |-> 0, m |-> m]

alloc_node(m) ==
    IF m.free_list # 0
    THEN [pos |-> m.free_list,
          m |-> [m EXCEPT !.free_list = m.node[m.free_list].next,
                          !.node[m.free_list] = ZeroNode]]
    ELSE IF m.alloc_size + m.node_size <= m.mem_size
    THEN [pos |-> m.alloc_size,
          m |-> [m EXCEPT !.alloc_size = m.alloc_size + m.node_size,
                          !.node[m.alloc_size] = ZeroNode]]
    ELSE [pos |-> 0, m |-> m]

\* free_node with a slip: the node is not chained to the nodes freed before
free_node_unchained(m, node_ref) ==
    [m EXCEPT !.node[node_ref].next = 0,
              !.free_list = node_ref]

\* free_node with a slip: the header's free_list is not moved to the node
free_node_lost(m, node_ref) ==
    [m EXCEPT !.node[node_ref].next = m.free_list]

free_node(m, node_ref) ==
    [m EXCEPT !.node[node_ref].next = m.free_list,
              !.free_list = node_ref]

(***************************************************************************)
(* init                                                                    *)
(***************************************************************************)
\* Lines 288-294 when alloc_node() returned 0: deref(0) is the start of the
\* buffer, so the stores to the head node land on the header and on the
\* bytes after it.  MemNode has backword at byte 8, level[i].forward at
\* 16 + 16 i and level[i].span at 24 + 16 i; MemHeader has mem_size at 8,
\* alloc_size at 16, header_size at 24, node_size at 32, free_list at 40 and
\* sl_info at 48 (head), 56 (tail), 64 (level_num) and 68 (length).  The
\* stores from level[3].span on fall on the first node slot, up to its
\* level[27]; its next field is not reached.
HeadOverHeader(m) ==
    [m EXCEPT !.mem_size = 0, !.alloc_size = 0, !.header_size = 0,
              !.node_size = 0, !.free_list = 0,
              !.sl_info = [head |-> 0, tail |-> 0, level_num |-> 0, length |-> 0],
              !.node[mem_header_size] =
                  [ZeroNode EXCEPT !.next = m.node[mem_header_size].next]]
\* the byte after the last of these stores, level[MAX_LEVEL_NUM - 1].span
HeadStoreEnd == 24 + 16 * (MAX_LEVEL_NUM - 1) + 4

\* lines 272-285: the header is written and the head node allocated
raw_header(m0, mem_size) ==
    LET m1 == [m0 EXCEPT !.magic_num = MAGIC_NUM,
                         !.mem_size = mem_size,
                         !.alloc_size = mem_header_size,
                         !.header_size = mem_header_size,
                         !.node_size = mem_node_size,
                         !.free_list = 0,
                         !.sl_info = [head |-> 0, tail |-> 0,
                                      level_num |-> 0, length |-> 0]]
        a == alloc_node(m1)
    IN  [pos |-> a.pos,
         m |-> [a.m EXCEPT !.sl_info = [head |-> a.pos, tail |-> 0,
                                        level_num |-> 1, length |-> 0]]]

\* lines 272-294: the raw branch
init_raw(m0, mem_size) ==
    LET h == raw_header(m0, mem_size) IN
    IF h.pos # 0
    THEN [h.m EXCEPT !.node[h.pos].backword = 0,
                     !.node[h.pos].level = [i \in Levels |-> ZeroLevel]]
    ELSE HeadOverHeader(h.m)

\* init with a slip: is_raw is not looked at and the buffer is formatted anew
init_reformat(m, self, memarg, mem_size, max_sl_len, is_raw) ==
    IF memarg = NULL
    THEN [m |-> m, self |-> self, ret |-> FALSE]
    ELSE IF mem_size < max_mem_size(max_sl_len)
    THEN [m |-> m, self |-> self, ret |-> FALSE]
    ELSE [m |-> init_raw(m, mem_size),
          self |-> [self EXCEPT !.mem_header_ = memarg], ret |-> TRUE]

\* init with a slip: the attach does not compare node_size
init_nonodesize(m, self, memarg, mem_size, max_sl_len, is_raw) ==
    IF memarg = NULL
    THEN [m |-> m, self |-> self, ret |-> FALSE]
    ELSE IF mem_size < max_mem_size(max_sl_len)
    THEN [m |-> m, self |-> self, ret |-> FALSE]
    ELSE LET s == [self EXCEPT !.mem_header_ = memarg] IN
         IF ~is_raw
         THEN IF \/ m.magic_num # MAGIC_NUM
                 \/ m.mem_size # mem_size
                 \/ m.header_size # mem_header_size
              THEN [m |-> m, self |-> s, ret |-> FALSE]
              ELSE [m |-> m, self |-> s, ret |-> TRUE]
         ELSE [m |-> init_raw(m, mem_size), self |-> s, ret |-> TRUE]

\* the whole of init: the new buffer, the new object and the returned value
init(m, self, memarg, mem_size, max_sl_len, is_raw) ==
    IF memarg = NULL
    THEN [m |-> m, self |-> self, ret |-> FALSE]
    ELSE IF mem_size < max_mem_size(max_sl_len)
    THEN [m |-> m, self |-> self, ret |-> FALSE]
    ELSE LET s == [self EXCEPT !.mem_header_ = memarg] IN
         IF ~is_raw
         THEN IF \/ m.magic_num # MAGIC_NUM
                 \/ m.mem_size # mem_size
                 \/ m.header_size # mem_header_size
                 \/ m.node_size # mem_node_size
              THEN [m |-> m, self |-> s, ret |-> FALSE]
              ELSE [m |-> m, self |-> s, ret |-> TRUE]
         ELSE [m |-> init_raw(m, mem_size), self |-> s, ret |-> TRUE]


(***************************************************************************)
(* insert                                                                  *)
(***************************************************************************)
Node(m, ref) == m.node[ref]
Forward(m, ref, i) == m.node[ref].level[i].forward
Span(m, ref, i) == m.node[ref].level[i].span

\* the while loop of insert with a slip: the arguments of cmp are swapped
RECURSIVE InsertWhile_Swapped(_, _, _, _, _)
InsertWhile_Swapped(m, element, node, i, index) ==
    IF Forward(m, node, i) # 0
       /\ cmp(element, Node(m, Forward(m, node, i)).element)
    THEN InsertWhile_Swapped(m, element, Forward(m, node, i), i, index + Span(m, node, i))
    ELSE [node |-> node, index |-> index]

\* the while loop of insert with a slip: it also steps over equal elements
RECURSIVE InsertWhile_LessEq(_, _, _, _, _)
InsertWhile_LessEq(m, element, node, i, index) ==
    IF Forward(m, node, i) # 0
       /\ ~cmp(element, Node(m, Forward(m, node, i)).element)
    THEN InsertWhile_LessEq(m, element, Forward(m, node, i), i, index + Span(m, node, i))
    ELSE [node |-> node, index |-> index]

\* lines 397-407: the while loop of insert at level i; the node reached and
\* the spans crossed
RECURSIVE InsertWhile(_, _, _, _, _)
InsertWhile(m, element, node, i, index) ==
    IF Forward(m, node, i) # 0
       /\ cmp(Node(m, Forward(m, node, i)).element, element)
    THEN InsertWhile(m, element, Forward(m, node, i), i, index + Span(m, node, i))
    ELSE [node |-> node, index |-> index]

\* lines 394-409: the descent of insert, filling index[] and update[]
RECURSIVE InsertSearch(_, _, _, _, _, _)
InsertSearch(m, element, i, node, index, update) ==
    IF i < 0
    THEN [index |-> index, update |-> update]
    ELSE LET start == IF i = m.sl_info.level_num - 1 THEN 0 ELSE index[i + 1]
             w == InsertWhile(m, element, node, i, start)
         IN  InsertSearch(m, element, i - 1, w.node,
                          [index EXCEPT ![i] = w.index],
                          [update EXCEPT ![i] = w.node])

\* lines 414-420: the new levels start at the head, spanning the whole list
RECURSIVE InsertGrow(_, _, _, _)
InsertGrow(m, i, level, s) ==
    IF i >= level
    THEN [m |-> m, index |-> s.index, update |-> s.update]
    ELSE InsertGrow([m EXCEPT !.node[m.sl_info.head].level[i].span = m.sl_info.length],
                    i + 1, level,
                    [index |-> [s.index EXCEPT ![i] = 0],
                     update |-> [s.update EXCEPT ![i] = m.sl_info.head]])

\* lines 425-432: splice the new node into levels 0..level-1
RECURSIVE InsertSplice(_, _, _, _, _)
InsertSplice(m, i, level, new_node_ref, s) ==
    IF i >= level
    THEN m
    ELSE LET u == s.update[i]
             d == s.index[0] - s.index[i]
         IN  InsertSplice(
                 [m EXCEPT !.node[new_node_ref].level[i] =
                               [forward |-> Forward(m, u, i),
                                span |-> Span(m, u, i) - d],
                           !.node[u].level[i] =
                               [forward |-> new_node_ref, span |-> d + 1]],
                 i + 1, level, new_node_ref, s)

\* the loop of lines 434-438 with a slip: it is left out, the spans above
\* the new node's levels stay as they were
InsertPass_none(m, i, s) == m

\* lines 434-438: the levels above the new node pass over one more element
RECURSIVE InsertPass(_, _, _)
InsertPass(m, i, s) ==
    IF i >= m.sl_info.level_num
    THEN m
    ELSE InsertPass([m EXCEPT !.node[s.update[i]].level[i].span = @ + 1], i + 1, s)

\* lines 440-454 with a slip: the node after the new one keeps its old
\* backword
InsertLink_stale(m, new_node_ref, element, s) ==
    LET m1 == [m EXCEPT !.node[new_node_ref].backword =
                   IF s.update[0] = m.sl_info.head THEN 0 ELSE s.update[0]]
        f == Forward(m1, new_node_ref, 0)
        m2 == IF f # 0
              THEN m1
              ELSE [m1 EXCEPT !.sl_info.tail = new_node_ref]
    IN  [m2 EXCEPT !.node[new_node_ref].element = element,
                   !.sl_info.length = @ + 1]

\* lines 440-454: backword links, tail, element and length
InsertLink(m, new_node_ref, element, s) ==
    LET m1 == [m EXCEPT !.node[new_node_ref].backword =
                   IF s.update[0] = m.sl_info.head THEN 0 ELSE s.update[0]]
        f == Forward(m1, new_node_ref, 0)
        m2 == IF f # 0
              THEN [m1 EXCEPT !.node[f].backword = new_node_ref]
              ELSE [m1 EXCEPT !.sl_info.tail = new_node_ref]
    IN  [m2 EXCEPT !.node[new_node_ref].element = element,
                   !.sl_info.length = @ + 1]

\* the whole of insert, with `level` the value random_level() returns
insert(m, element, level) ==
    LET a == alloc_node(m) IN
    IF a.pos = 0
    THEN [m |-> a.m, ret |-> FALSE]
    ELSE LET s0 == InsertSearch(a.m, element, a.m.sl_info.level_num - 1,
                                a.m.sl_info.head, ZeroArray, ZeroArray)
             g == IF level > a.m.sl_info.level_num
                  THEN LET r == InsertGrow(a.m, a.m.sl_info.level_num, level, s0)
                       IN  [m |-> [r.m EXCEPT !.sl_info.level_num = level],
                            index |-> r.index, update |-> r.update]
                  ELSE [m |-> a.m, index |-> s0.index, update |-> s0.update]
             m3 == InsertSplice(g.m, 0, level, a.pos, g)
             m4 == InsertPass(m3, level, g)
         IN  [m |-> InsertLink(m4, a.pos, element, g), ret |-> TRUE]

(***************************************************************************)
(* erase                                                                   *)
(***************************************************************************)
\* lines 477-484: the while loop of del_first_of at level i
RECURSIVE DelWhile(_, _, _, _)
DelWhile(m, element, node, i) ==
    IF Forward(m, node, i) # 0
       /\ cmp(Node(m, Forward(m, node, i)).element, element)
    THEN DelWhile(m, element, Forward(m, node, i), i)
    ELSE node

\* lines 475-486: the descent of del_first_of, filling update[]
RECURSIVE DelSearch(_, _, _, _, _)
DelSearch(m, element, i, node, update) ==
    IF i < 0
    THEN [node |-> node, update |-> update]
    ELSE LET w == DelWhile(m, element, node, i)
         IN  DelSearch(m, element, i - 1, w, [update EXCEPT ![i] = w])

\* lines 496-509: unlink del_node at every active level
RECURSIVE DelUnlink(_, _, _, _)
DelUnlink(m, i, del_node_ref, update) ==
    IF i >= m.sl_info.level_num
    THEN m
    ELSE LET u == update[i] IN
         DelUnlink(
             IF Forward(m, u, i) = del_node_ref
             THEN [m EXCEPT !.node[u].level[i] =
                       [forward |-> Forward(m, del_node_ref, i),
                        span |-> Span(m, u, i) + Span(m, del_node_ref, i) - 1]]
             ELSE [m EXCEPT !.node[u].level[i].span = @ - 1],
             i + 1, del_node_ref, update)

\* the level loop of del_first_of with a slip: level_num is never lowered
DelShrink_never(m) == m

\* lines 519-524: drop the empty top levels
RECURSIVE DelShrink(_)
DelShrink(m) ==
    IF m.sl_info.level_num > 1
       /\ Forward(m, m.sl_info.head, m.sl_info.level_num - 1) = 0
    THEN DelShrink([m EXCEPT !.sl_info.level_num = @ - 1])
    ELSE m

del_first_of(m, element) ==
    LET s == DelSearch(m, element, m.sl_info.level_num - 1, m.sl_info.head, ZeroArray)
        del_node_ref == Forward(m, s.node, 0)
    IN  IF del_node_ref # 0
           /\ ~cmp(element, Node(m, del_node_ref).element)
           /\ ~cmp(Node(m, del_node_ref).element, element)
        THEN LET m1 == DelUnlink(m, 0, del_node_ref, s.update)
                 f == Forward(m1, del_node_ref, 0)
                 m2 == IF f # 0
                       THEN [m1 EXCEPT !.node[f].backword =
                                           Node(m1, del_node_ref).backword]
                       ELSE [m1 EXCEPT !.sl_info.tail =
                                           Node(m1, del_node_ref).backword]
                 m3 == DelShrink(m2)
                 m4 == [m3 EXCEPT !.sl_info.length = @ - 1]
             IN  [m |-> free_node(m4, del_node_ref), ret |-> TRUE]
        ELSE [m |-> m, ret |-> FALSE]

\* erase with a slip: `if` for `while`, one occurrence is removed
erase_once(m, element) ==
    LET d == del_first_of(m, element) IN
    [m |-> d.m, ret |-> IF d.ret THEN 1 ELSE 0]

RECURSIVE EraseLoop(_, _, _)
EraseLoop(m, element, count) ==
    LET d == del_first_of(m, element) IN
    IF d.ret THEN EraseLoop(d.m, element, count + 1)
    ELSE [m |-> d.m, ret |-> count]

erase(m, element) == EraseLoop(m, element, 0)

(***************************************************************************)
(* Lookups                                                                 *)
(***************************************************************************)
\* lines 303-326: the for loop of get_index from level i, standing on node
RECURSIVE GetIndexLoop(_, _, _, _, _)
GetIndexLoop(m, element, i, node, index) ==
    IF i < 0
    THEN 0
    ELSE IF Forward(m, node, i) = 0
    THEN GetIndexLoop(m, element, i - 1, node, index)
    ELSE IF cmp(Node(m, Forward(m, node, i)).element, element)
    THEN GetIndexLoop(m, element, i, Forward(m, node, i), index + Span(m, node, i))
    ELSE IF ~cmp(element, Node(m, Forward(m, node, i)).element)
    THEN index + Span(m, node, i)
    ELSE GetIndexLoop(m, element, i - 1, node, index)

get_index(m, element) ==
    GetIndexLoop(m, element, m.sl_info.level_num - 1, m.sl_info.head, 0)

\* lines 332-353: find by value; the node_ref of the returned Iterator
RECURSIVE FindLoop(_, _, _, _)
FindLoop(m, element, i, node) ==
    IF i < 0
    THEN 0
    ELSE IF Forward(m, node, i) = 0
    THEN FindLoop(m, element, i - 1, node)
    ELSE IF cmp(Node(m, Forward(m, node, i)).element, element)
    THEN FindLoop(m, element, i, Forward(m, node, i))
    ELSE IF ~cmp(element, Node(m, Forward(m, node, i)).element)
    THEN Forward(m, node, i)
    ELSE FindLoop(m, element, i - 1, node)

find(m, element) ==
    FindLoop(m, element, m.sl_info.level_num - 1, m.sl_info.head)

\* lines 359-381: find by index; the node_ref of the returned Iterator
RECURSIVE FindIndexLoop(_, _, _, _, _)
FindIndexLoop(m, index, i, node, total_span) ==
    IF i < 0
    THEN 0
    ELSE IF Forward(m, node, i) = 0
    THEN FindIndexLoop(m, index, i - 1, node, total_span)
    ELSE IF total_span + Span(m, node, i) <= index
    THEN FindIndexLoop(m, index, i, Forward(m, node, i), total_span + Span(m, node, i))
    ELSE IF total_span = index /\ node # m.sl_info.head
    THEN node
    ELSE FindIndexLoop(m, index, i - 1, node, total_span)

find_index(m, index) ==
    FindIndexLoop(m, index, m.sl_info.level_num - 1, m.sl_info.head, 0)

(***************************************************************************)
(* Iterator: the node_ref of the cursor                                    *)
(***************************************************************************)
\* begin with a slip: the iterator is put on the head sentinel itself
begin_head(m) == m.sl_info.head

begin(m) == Forward(m, m.sl_info.head, 0)

end(m) ==
    IF m.sl_info.tail # 0
    THEN Forward(m, m.sl_info.tail, 0)
    ELSE m.sl_info.tail

\* operator++
IterNext(m, node_ref) == Forward(m, node_ref, 0)

\* operator*
IterDeref(m, node_ref) == Node(m, node_ref).element

\* for(it = begin(); it != end(); ++it): the node_refs visited.  A walk over
\* a sound list takes at most one step per slot.
RECURSIVE IterWalk(_, _, _)
IterWalk(m, it, steps) ==
    IF it = end(m) \/ steps = 0
    THEN <<>>
    ELSE <<it>> \o IterWalk(m, IterNext(m, it), steps - 1)

BaseRefs(m) == IterWalk(m, begin(m), Cardinality(Slots))
BaseElems(m) ==
    LET refs == BaseRefs(m) IN [k \in 1..Len(refs) |-> IterDeref(m, refs[k])]

\* the offsets chained from free_list through next
RECURSIVE FreeWalk(_, _, _)
FreeWalk(m, ref, steps) ==
    IF ref = 0 \/ steps = 0
    THEN <<>>
    ELSE <<ref>> \o FreeWalk(m, Node(m, ref).next, steps - 1)

FreeRefs(m) == FreeWalk(m, m.free_list, Cardinality(Slots) + 1)

(***************************************************************************)
(* The calls a program makes                                               *)
(***************************************************************************)
\* The bytes no later read can see: of a slot on the free list everything but
\* next (alloc_node zeroes the slot before handing it out again), and of the
\* head the spans at levels >= level_num (insert rewrites them when it raises
\* level_num, lines 414-420).  The state keeps them as zero.
DeadBytes(m) ==
    LET free == {FreeRefs(m)[k] : k \in 1..Len(FreeRefs(m))} IN
    [m EXCEPT !.node = [r \in Slots |->
        IF r \in free
        THEN [ZeroNode EXCEPT !.next = m.node[r].next]
        ELSE IF r = m.sl_info.head
        THEN [m.node[r] EXCEPT !.level = [i \in Levels |->
                 IF i >= m.sl_info.level_num
                 THEN [m.node[r].level[i] EXCEPT !.span = 0]
                 ELSE m.node[r].level[i]]]
        ELSE m.node[r]]]

\* a member function other than init is called on an object that init has
\* pointed at a buffer holding an initialized header
Usable(h) == inst[h].mem_header_ = BUF /\ mem.magic_num = MAGIC_NUM

Init ==
    /\ mem = ZeroMem
    /\ inst = [h \in Handles |-> [mem_header_ |-> NULL]]
    /\ rt = [phase |-> "any", n |-> 0, vals |-> {}]
    /\ twin = ZeroMem

\* init(mem, mem_size, max_sl_len, true): object 1 formats the buffer, once
CallInitRaw(memarg, mem_size, max_sl_len) ==
    LET r == init(mem, inst[1], memarg, mem_size, max_sl_len, TRUE) IN
    /\ mem.magic_num # MAGIC_NUM
    /\ mem' = r.m
    /\ inst' = [inst EXCEPT ![1] = r.self]
    /\ UNCHANGED <<rt, twin>>

\* init(mem, mem_size, max_sl_len, false): object 2 attaches to the buffer
\* as it is
CallInitAttach(mem_size, max_sl_len) ==
    LET r == init(mem, inst[2], BUF, mem_size, max_sl_len, FALSE) IN
    /\ mem' = r.m
    /\ inst' = [inst EXCEPT ![2] = r.self]
    /\ UNCHANGED <<rt, twin>>

CallInsert(element, level) ==
    /\ \E h \in Handles : Usable(h)
    /\ mem' = DeadBytes(insert(mem, element, level).m)
    /\ UNCHANGED <<inst, rt, twin>>

CallErase(element) ==
    /\ \E h \in Handles : Usable(h)
    /\ mem' = DeadBytes(erase(mem, element).m)
    /\ UNCHANGED <<inst, rt, twin>>

Next ==
    \/ \E memarg \in {NULL, BUF}, mem_size \in MemSizes, max_sl_len \in SlLens :
            CallInitRaw(memarg, mem_size, max_sl_len)
    \/ \E mem_size \in MemSizes, max_sl_len \in SlLens :
            CallInitAttach(mem_size, max_sl_len)
    \/ \E element \in Elements, level \in DrawnLevels : CallInsert(element, level)
    \/ \E element \in Elements : CallErase(element)

Spec == Init /\ [][Next]_vars

(***************************************************************************)
(* The round trip of the test plan: format, insert some elements, then     *)
(* erase.  rt counts the inserts that succeeded and keeps the values that  *)
(* are inserted and not yet erased.                                        *)
(***************************************************************************)
InitRT ==
    /\ mem = ZeroMem
    /\ inst = [h \in Handles |-> [mem_header_ |-> NULL]]
    /\ rt = [phase |-> "init", n |-> 0, vals |-> {}]
    /\ twin = ZeroMem

RTInitRaw(mem_size, max_sl_len) ==
    LET r == init(mem, inst[1], BUF, mem_size, max_sl_len, TRUE) IN
    /\ rt.phase = "init"
    /\ r.ret
    /\ mem' = r.m
    /\ inst' = [inst EXCEPT ![1] = r.self]
    /\ rt' = [rt EXCEPT !.phase = "insert"]
    /\ UNCHANGED twin

RTInsert(element, level) ==
    LET r == insert(mem, element, level) IN
    /\ rt.phase = "insert"
    /\ Usable(1)
    /\ mem' = DeadBytes(r.m)
    /\ rt' = IF r.ret
             THEN [rt EXCEPT !.n = @ + 1, !.vals = @ \cup {element}]
             ELSE rt
    /\ UNCHANGED <<inst, twin>>

RTErase(element) ==
    /\ rt.phase \in {"insert", "erase"}
    /\ Usable(1)
    /\ mem' = DeadBytes(erase(mem, element).m)
    /\ rt' = [rt EXCEPT !.phase = "erase", !.vals = @ \ {element}]
    /\ UNCHANGED <<inst, twin>>

NextRT ==
    \/ \E mem_size \in MemSizes, max_sl_len \in SlLens : RTInitRaw(mem_size, max_sl_len)
    \/ \E element \in Elements, level \in DrawnLevels : RTInsert(element, level)
    \/ \E element \in Elements : RTErase(element)

SpecRT == InitRT /\ [][NextRT]_vars

(***************************************************************************)
(* What the claims speak of                                                *)
(***************************************************************************)
Initialized == mem.magic_num = MAGIC_NUM
Equal(a, b) == ~cmp(a, b) /\ ~cmp(b, a)
SeqSet(q) == {q[k] : k \in 1..Len(q)}
ElemsOf(m, refs) == [k \in 1..Len(refs) |-> IterDeref(m, refs[k])]
\* the 1-based rank of the foremost element equal to e, 0 when there is none
Foremost(m, e) ==
    LET be == BaseElems(m) IN
    IF \E k \in 1..Len(be) : Equal(be[k], e)
    THEN CHOOSE k \in 1..Len(be) :
            /\ Equal(be[k], e)
            /\ \A j \in 1..(k - 1) : ~Equal(be[j], e)
    ELSE 0
CountLess(m, e) ==
    LET be == BaseElems(m) IN Cardinality({k \in 1..Len(be) : cmp(be[k], e)})
CountEqual(m, e) ==
    LET be == BaseElems(m) IN Cardinality({k \in 1..Len(be) : Equal(be[k], e)})

\* C1: in every state reached from a raw init by inserts and erases, the
\* walk from begin() to end() yields a sequence that is non-decreasing under
\* the comparison predicate.
C1_Sorted ==
    Initialized =>
        LET be == BaseElems(mem) IN
        \A k \in 1..(Len(be) - 1) : ~cmp(be[k + 1], be[k])

C1_Witness ==
    /\ Initialized
    /\ Len(BaseElems(mem)) >= 3
    /\ BaseElems(mem)[1] # BaseElems(mem)[3]
    /\ mem.sl_info.level_num >= 2
    /\ mem.alloc_size = mem.mem_size

\* C2: for every index i in 1..length, the tail included, find(i) is a
\* cursor on the node reached by advancing begin() i - 1 times, never end().
C2_FindIndex ==
    Initialized =>
        \A i \in 1..mem.sl_info.length :
            /\ find_index(mem, i) = BaseRefs(mem)[i]
            /\ find_index(mem, i) # end(mem)

\* C3: get_index(e) is the 1-based rank of the foremost node equal to e,
\* that is 1 + the number of stored elements less than e, whatever the
\* levels of the equal nodes, and 0 exactly when no stored element equals e.
C3_GetIndex ==
    Initialized =>
        \A e \in Elements :
            /\ get_index(mem, e) = Foremost(mem, e)
            /\ CountEqual(mem, e) > 0 => get_index(mem, e) = 1 + CountLess(mem, e)
            /\ CountEqual(mem, e) = 0 <=> get_index(mem, e) = 0

\* C4: find(e) is a cursor on the foremost node whose element equals e when
\* there is one, whatever the levels of the equal nodes, and end() otherwise.
C4_Find ==
    Initialized =>
        \A e \in Elements :
            find(mem, e) = IF Foremost(mem, e) # 0
                           THEN BaseRefs(mem)[Foremost(mem, e)]
                           ELSE end(mem)

\* C5: each successful insert(e), whatever level is drawn, links the new
\* node after every node less than e and immediately before every node that
\* was already there and is not less than e (the equal ones first among
\* them), and moves no other node; so equal elements stand in reverse order
\* of insertion.
C5_NewestFirst ==
    Initialized =>
        \A e \in Elements, level \in DrawnLevels :
            LET r == insert(mem, e, level)
                old == BaseRefs(mem)
                new == BaseRefs(r.m)
                k == CountLess(mem, e)
            IN  r.ret =>
                    /\ Len(new) = Len(old) + 1
                    /\ new[k + 1] \notin SeqSet(old)
                    /\ IterDeref(r.m, new[k + 1]) = e
                    /\ \A j \in 1..k : new[j] = old[j] /\ cmp(IterDeref(mem, old[j]), e)
                    /\ \A j \in (k + 1)..Len(old) :
                           new[j + 1] = old[j] /\ ~cmp(IterDeref(mem, old[j]), e)
                    /\ \A j \in 1..Len(old) :
                           IterDeref(r.m, old[j]) = IterDeref(mem, old[j])

C5_Witness ==
    /\ Initialized
    /\ mem.free_list # 0
    /\ \E e \in Elements :
           /\ CountEqual(mem, e) >= 1
           /\ CountLess(mem, e) >= 1
           /\ \E level \in DrawnLevels : insert(mem, e, level).ret

\* C6: over a buffer of exactly max_mem_size(n) bytes the list never holds
\* more than n elements: insert returns true whenever length < n, and
\* returns false and leaves length = n whenever length = n.
C6_Capacity ==
    Initialized =>
        \A n \in 0..MaxLen :
            mem.mem_size = max_mem_size(n) =>
                /\ mem.sl_info.length <= n
                /\ Len(BaseRefs(mem)) <= n
                /\ \A e \in Elements, level \in DrawnLevels :
                       LET r == insert(mem, e, level) IN
                       /\ r.ret <=> mem.sl_info.length < n
                       /\ mem.sl_info.length = n => r.m.sl_info.length = n

C6_Witness ==
    /\ Initialized
    /\ mem.mem_size = max_mem_size(MaxLen)
    /\ mem.sl_info.length = MaxLen
    /\ mem.sl_info.level_num >= 2
    /\ ~insert(mem, 1, 1).ret

\* C7: when insert returns false, every header field and every node's
\* element, links and spans are what they were before the call.
C7_FailedInsertChangesNothing ==
    Initialized =>
        \A e \in Elements, level \in DrawnLevels :
            LET r == insert(mem, e, level) IN
            ~r.ret => r.m = mem

C7_Witness ==
    /\ Initialized
    /\ mem.sl_info.length >= 2
    /\ mem.sl_info.level_num >= 2
    /\ \E e \in Elements, level \in DrawnLevels : ~insert(mem, e, level).ret

\* C8: erase(e) returns the number of stored elements equal to e; afterwards
\* none is equal to e, length is smaller by the returned count, and the
\* other nodes keep their elements and their base-level order.
C8_Erase ==
    Initialized =>
        \A e \in Elements :
            LET r == erase(mem, e)
                old == BaseRefs(mem)
                NotE(ref) == ~Equal(IterDeref(mem, ref), e)
                keep == SelectSeq(old, NotE)
            IN  /\ r.ret = CountEqual(mem, e)
                /\ CountEqual(r.m, e) = 0
                /\ r.m.sl_info.length = mem.sl_info.length - r.ret
                /\ BaseRefs(r.m) = keep
                /\ BaseElems(r.m) = ElemsOf(mem, keep)

C8_Witness ==
    /\ Initialized
    /\ mem.sl_info.level_num >= 2
    /\ \E e \in Elements :
           /\ erase(mem, e).ret >= 2
           /\ Len(BaseRefs(erase(mem, e).m)) >= 1

\* C9: from a fresh raw init, n successful inserts followed by erasing
\* every inserted value leave length = 0, level_num = 1, tail = 0, the
\* head's base-level forward link empty, and exactly n distinct node slots
\* on the free list.
C9_RoundTrip ==
    (rt.phase = "erase" /\ rt.vals = {}) =>
        /\ mem.sl_info.length = 0
        /\ mem.sl_info.level_num = 1
        /\ mem.sl_info.tail = 0
        /\ Forward(mem, mem.sl_info.head, 0) = 0
        /\ Len(FreeRefs(mem)) = rt.n
        /\ Cardinality(SeqSet(FreeRefs(mem))) = rt.n
        /\ SeqSet(FreeRefs(mem)) \subseteq Slots \ {mem.sl_info.head}

C9_Witness ==
    /\ rt.phase = "erase"
    /\ rt.vals = {}
    /\ rt.n = MaxLen
    /\ Len(FreeRefs(mem)) = MaxLen

\* what an object shows of the buffer it points at
Observed(self, m) ==
    IF self.mem_header_ = BUF
    THEN [order |-> BaseElems(m), length |-> m.sl_info.length,
          index |-> [e \in Elements |-> get_index(m, e)]]
    ELSE [undefined |-> TRUE]

\* what C10 asks of a second object attaching with the same mem_size and the
\* given max_sl_len, `seen` being what the first object shows
AttachFaithful(max_sl_len, seen) ==
    LET r == init(mem, inst[2], BUF, mem.mem_size, max_sl_len, FALSE) IN
    /\ r.ret
    /\ r.m = mem
    /\ Observed(r.self, r.m) = seen

\* C10 as stated: after a raw init and any inserts and erases, a second
\* object initialized with is_raw = false over the same buffer and the same
\* mem_size returns true, changes no byte and shows the same order, length
\* and get_index results, whatever max_sl_len it passes.
C10_AttachAnyLen ==
    (Initialized /\ Usable(1)) =>
        LET seen == Observed(inst[1], mem) IN
        \A max_sl_len \in 0..(MaxLen + 1) : AttachFaithful(max_sl_len, seen)

\* C10 amended: the same, for every max_sl_len with
\* max_mem_size(max_sl_len) <= mem_size.
C10_Attach ==
    (Initialized /\ Usable(1)) =>
        LET seen == Observed(inst[1], mem) IN
        \A max_sl_len \in 0..(MaxLen + 1) :
            mem.mem_size >= max_mem_size(max_sl_len) =>
                AttachFaithful(max_sl_len, seen)

C10_Witness ==
    /\ Initialized
    /\ Usable(1)
    /\ inst[2].mem_header_ = BUF
    /\ mem.sl_info.length >= 2
    /\ mem.free_list # 0
    /\ AttachFaithful(0, Observed(inst[1], mem))

(***************************************************************************)
(* init on its own: what it returns and writes for the buffers and the     *)
(* arguments a caller can hand it.                                         *)
(***************************************************************************)
\* the mem_size values passed to init here: also too few bytes for the head
\* node (as many as the header, and 8 bytes short of the head node)
InitMemSizes == MemSizes \cup {mem_header_size, max_mem_size(0) - 8}
\* the max_sl_len values passed to init here: also the largest uint32_t
InitSlLens == SlLens \cup {UINT32_MAX}
\* the buffers init is handed: zero bytes, or a header written earlier,
\* possibly by a build with another element type (other sizes) or mangled
GivenMems ==
    {[ZeroMem EXCEPT !.magic_num = magic, !.mem_size = mem_size,
                     !.alloc_size = header_size,
                     !.header_size = header_size, !.node_size = node_size] :
        magic \in {0, MAGIC_NUM, MAGIC_NUM + 1},
        mem_size \in {0} \cup MemSizes,
        header_size \in {mem_header_size, mem_header_size + 8},
        node_size \in {mem_node_size, mem_node_size + 8}}

InitI ==
    /\ mem \in GivenMems
    /\ inst = [h \in Handles |-> [mem_header_ |-> NULL]]
    /\ rt = [phase |-> "defined", n |-> 0, vals |-> {}]
    /\ twin = ZeroMem

\* init(mem, mem_size, max_sl_len, true) by object 1; rt.vals keeps the
\* arguments and the returned value of the latest such call.  When the head node
\* could not be allocated and mem_size ends before the last store to it, the
\* stores run past the bytes the caller named: the behaviour is undefined,
\* kept here as the stores landing or not landing.
ICallRaw(mem_size, max_sl_len) ==
    LET r == init(mem, inst[1], BUF, mem_size, max_sl_len, TRUE)
        past == r.ret /\ r.m.sl_info.head = 0 /\ mem_size < HeadStoreEnd
    IN
    /\ mem' \in IF past THEN {r.m, raw_header(mem, mem_size).m} ELSE {r.m}
    /\ inst' = [inst EXCEPT ![1] = r.self]
    /\ rt' = [rt EXCEPT !.phase = IF past THEN "undefined" ELSE @,
                        !.vals = {<<mem_size, max_sl_len, r.ret>>}]
    /\ UNCHANGED twin

\* init(mem, mem_size, max_sl_len, false) by object 2
ICallAttach(mem_size, max_sl_len) ==
    LET r == init(mem, inst[2], BUF, mem_size, max_sl_len, FALSE) IN
    /\ mem' = r.m
    /\ inst' = [inst EXCEPT ![2] = r.self]
    /\ UNCHANGED <<rt, twin>>

NextI ==
    \/ \E mem_size \in InitMemSizes, max_sl_len \in InitSlLens :
            ICallRaw(mem_size, max_sl_len)
    \/ \E mem_size \in InitMemSizes, max_sl_len \in InitSlLens :
            ICallAttach(mem_size, max_sl_len)

SpecI == InitI /\ [][NextI]_vars

\* the four header fields an attach compares (lines 263-266)
HeaderMatches(m, mem_size) ==
    /\ m.magic_num = MAGIC_NUM
    /\ m.mem_size = mem_size
    /\ m.header_size = mem_header_size
    /\ m.node_size = mem_node_size

\* C11: init with is_raw = false returns false and leaves every byte of the
\* buffer as it was whenever the header's magic_num is not MAGIC_NUM or its
\* stored mem_size, header_size or node_size differs from the mem_size
\* argument and the sizes of the current element type; it returns true only
\* when all four match (and then, too, it writes nothing).
C11_AttachValidates ==
    \A mem_size \in InitMemSizes, max_sl_len \in InitSlLens :
        LET r == init(mem, inst[2], BUF, mem_size, max_sl_len, FALSE) IN
        /\ r.m = mem
        /\ ~HeaderMatches(mem, mem_size) => ~r.ret
        /\ r.ret => HeaderMatches(mem, mem_size)

\* object 2 has attached to a header that is right but for its node_size,
\* and was refused
C11_Witness ==
    /\ inst[2].mem_header_ = BUF
    /\ mem.magic_num = MAGIC_NUM
    /\ mem.mem_size \in MemSizes
    /\ mem.header_size = mem_header_size
    /\ mem.node_size # mem_node_size
    /\ ~init(mem, inst[2], BUF, mem.mem_size, 0, FALSE).ret

(***************************************************************************)
(* One object alone: a raw init, then inserts and erases.  An attach       *)
(* writes nothing to the buffer, so the buffers reached are those of Spec.  *)
(***************************************************************************)
NextS ==
    \/ \E memarg \in {NULL, BUF}, mem_size \in MemSizes, max_sl_len \in SlLens :
            CallInitRaw(memarg, mem_size, max_sl_len)
    \/ \E element \in Elements, level \in DrawnLevels : CallInsert(element, level)
    \/ \E element \in Elements : CallErase(element)

SpecS == Init /\ [][NextS]_vars

\* C12: in every state with length = 0 (freshly formatted, or after every
\* element has been erased) find by value returns end() for every element,
\* find by index returns end() for every index, get_index returns 0 for
\* every element, and begin() = end().
C12_Empty ==
    (Initialized /\ mem.sl_info.length = 0) =>
        /\ \A e \in Elements : find(mem, e) = end(mem)
        /\ \A index \in 0..(MaxLen + 1) : find_index(mem, index) = end(mem)
        /\ \A e \in Elements : get_index(mem, e) = 0
        /\ begin(mem) = end(mem)

\* the list was filled to its capacity and every element was erased again
C12_Witness ==
    /\ Initialized
    /\ \E h \in Handles : Usable(h)
    /\ mem.sl_info.length = 0
    /\ Len(FreeRefs(mem)) = MaxLen
    /\ mem.alloc_size = max_mem_size(MaxLen)

\* mem_size is smaller than header_size + (max_sl_len + 1) * node_size, the
\* sum taken over the integers; for max_sl_len = 2^32 - 1 that is
\* header_size + 2^32 * node_size, above every mem_size drawn
BelowNeeded(mem_size, max_sl_len) ==
    IF max_sl_len = UINT32_MAX
    THEN TRUE
    ELSE mem_size < mem_header_size + (max_sl_len + 1) * mem_node_size

\* C13: for every max_sl_len of the uint32_t range, 2^32 - 1 included, init
\* returns false whenever mem_size is smaller than
\* header_size + (max_sl_len + 1) * node_size, so that a raw init that
\* returns true has allocated the head sentinel at a non-zero offset.
\* Stated of the latest raw init: call[1] is its mem_size, call[2] its
\* max_sl_len and call[3] what it returned.
C13_InitRejects ==
    \A call \in rt.vals :
        /\ BelowNeeded(call[1], call[2]) => ~call[3]
        /\ call[3] => mem.sl_info.head # 0

\* the head and the nodes linked at the base level, each with its 1-based
\* rank (0 for the head)
Ranks(m) ==
    LET refs == BaseRefs(m) IN
    [r \in {m.sl_info.head} \cup SeqSet(refs) |->
        IF r = m.sl_info.head THEN 0 ELSE CHOOSE k \in 1..Len(refs) : refs[k] = r]

\* C14: in every reachable state, for every node linked at a level
\* i < level_num (the head included) whose level-i forward link is not empty,
\* level[i].span is the number of base-level hops from the node to its
\* level-i forward node, which is the difference of their ranks; the spans
\* along a search path from the head therefore add up to the rank of the
\* node the path ends on.
C14_Spans ==
    Initialized =>
        LET rank == Ranks(mem) IN
        \A i \in Levels : i < mem.sl_info.level_num =>
            \A r \in DOMAIN rank :
                Forward(mem, r, i) # 0 =>
                    /\ Forward(mem, r, i) \in DOMAIN rank
                    /\ Span(mem, r, i) = rank[Forward(mem, r, i)] - rank[r]

\* after inserts and an erase there is a level-1 link that passes over an
\* element
C14_Witness ==
    /\ Initialized
    /\ mem.sl_info.level_num >= 2
    /\ mem.free_list # 0
    /\ \E r \in DOMAIN Ranks(mem) :
            /\ Forward(mem, r, 1) # 0
            /\ Span(mem, r, 1) >= 2

\* C15: in every reachable state 1 <= level_num <= MAX_LEVEL_NUM, the head's
\* forward link is empty at every level i >= level_num, and whenever
\* level_num > 1 the head's forward link at level level_num - 1 is not empty
\* (so level_num = 1 whenever the list is empty).
C15_LevelNum ==
    Initialized =>
        LET head == mem.sl_info.head
            level_num == mem.sl_info.level_num
        IN  /\ 1 <= level_num
            /\ level_num <= MAX_LEVEL_NUM
            /\ \A i \in Levels : i >= level_num => Forward(mem, head, i) = 0
            /\ level_num > 1 => Forward(mem, head, level_num - 1) # 0
            /\ mem.sl_info.length = 0 => level_num = 1

\* the list has grown to a second level and erases have left one node, a
\* tall one
C15_Witness ==
    /\ Initialized
    /\ mem.sl_info.level_num >= 2
    /\ mem.sl_info.length = 1
    /\ mem.free_list # 0
    /\ Forward(mem, mem.sl_info.head, mem.sl_info.level_num - 1) = begin(mem)

\* the offsets reached from ref by level-0 forward links, up to the first
\* empty link (unlike BaseRefs, the walk does not look at tail)
RECURSIVE ForwardWalk(_, _, _)
ForwardWalk(m, ref, steps) ==
    IF ref = 0 \/ steps = 0
    THEN <<>>
    ELSE <<ref>> \o ForwardWalk(m, Forward(m, ref, 0), steps - 1)

BaseChain(m) ==
    ForwardWalk(m, Forward(m, m.sl_info.head, 0), Cardinality(Slots) + 1)

\* C16: in every reachable state the base level is a consistent doubly
\* linked list: the first real node's backword is 0, every real node whose
\* base-level predecessor is a real node a has backword = a's offset, and
\* tail is the offset of the last node reached by base-level forward links
\* from the head (0 when the list is empty).
C16_Backword ==
    Initialized =>
        LET refs == BaseChain(mem) IN
        /\ Len(refs) >= 1 => Node(mem, refs[1]).backword = 0
        /\ \A k \in 2..Len(refs) : Node(mem, refs[k]).backword = refs[k - 1]
        /\ mem.sl_info.tail = IF Len(refs) = 0 THEN 0 ELSE refs[Len(refs)]

\* three nodes are linked and the tail lies in an earlier slot than its
\* predecessor: the order of the list is not the order of the slots
C16_Witness ==
    /\ Initialized
    /\ Len(BaseChain(mem)) = 3
    /\ mem.sl_info.tail # 0
    /\ mem.sl_info.tail < Node(mem, mem.sl_info.tail).backword

\* C17: in every reachable state header_size <= alloc_size <= mem_size;
\* alloc_size never decreases (no insert and no erase lowers it), and it
\* increases, by exactly node_size, only in an allocation made while the free
\* list is empty: an allocation made while the free list is not empty returns
\* the free-list head and leaves alloc_size as it is.
C17_AllocSize ==
    Initialized =>
        LET a == alloc_node(mem) IN
        /\ mem.header_size <= mem.alloc_size
        /\ mem.alloc_size <= mem.mem_size
        /\ a.m.alloc_size \in {mem.alloc_size, mem.alloc_size + mem.node_size}
        /\ a.m.alloc_size # mem.alloc_size =>
                mem.free_list = 0 /\ a.pos = mem.alloc_size
        /\ mem.free_list # 0 =>
                a.pos = mem.free_list /\ a.m.alloc_size = mem.alloc_size
        /\ \A e \in Elements :
                /\ erase(mem, e).m.alloc_size = mem.alloc_size
                /\ \A level \in DrawnLevels :
                        insert(mem, e, level).m.alloc_size = a.m.alloc_size

\* an erase has put a slot on the free list while bytes are still uncarved:
\* the next allocation takes the freed slot
C17_Witness ==
    /\ Initialized
    /\ \E h \in Handles : Usable(h)
    /\ mem.free_list # 0
    /\ mem.alloc_size + mem.node_size <= mem.mem_size
    /\ alloc_node(mem).pos = mem.free_list

(***************************************************************************)
(* Filling the arena until an insert fails, then erasing and inserting.    *)
(* From the first failed insert on, rt.n counts the elements that erases    *)
(* have removed and inserts have not yet put back.  rt.phase is "filling"  *)
(* up to the first failed insert, then "exhausted"; "refilling" after an    *)
(* erase has removed elements, and "refilled" once as many inserts have     *)
(* succeeded.                                                              *)
(***************************************************************************)
InitX ==
    /\ mem = ZeroMem
    /\ inst = [h \in Handles |-> [mem_header_ |-> NULL]]
    /\ rt = [phase |-> "init", n |-> 0, vals |-> {}]
    /\ twin = ZeroMem

XInitRaw(mem_size, max_sl_len) ==
    LET r == init(mem, inst[1], BUF, mem_size, max_sl_len, TRUE) IN
    /\ rt.phase = "init"
    /\ r.ret
    /\ mem' = r.m
    /\ inst' = [inst EXCEPT ![1] = r.self]
    /\ rt' = [rt EXCEPT !.phase = "filling"]
    /\ UNCHANGED twin

XInsert(element, level) ==
    LET r == insert(mem, element, level) IN
    /\ rt.phase \in {"filling", "exhausted", "refilling", "refilled"}
    /\ Usable(1)
    /\ mem' = DeadBytes(r.m)
    /\ rt' = IF rt.phase = "filling"
             THEN IF r.ret THEN rt ELSE [rt EXCEPT !.phase = "exhausted"]
             ELSE IF r.ret /\ rt.n > 0
             THEN [rt EXCEPT !.n = @ - 1,
                             !.phase = IF rt.n = 1 THEN "refilled" ELSE @]
             ELSE rt
    /\ UNCHANGED <<inst, twin>>

\* an erase in the exhausted arena, where no insert can succeed
XErase(element) ==
    LET r == erase(mem, element) IN
    /\ rt.phase \in {"exhausted", "refilled"}
    /\ Usable(1)
    /\ mem' = DeadBytes(r.m)
    /\ rt' = IF r.ret >= 1
             THEN [rt EXCEPT !.n = r.ret, !.phase = "refilling"]
             ELSE rt
    /\ UNCHANGED <<inst, twin>>

NextX ==
    \/ \E mem_size \in MemSizes, max_sl_len \in SlLens : XInitRaw(mem_size, max_sl_len)
    \/ \E element \in Elements, level \in DrawnLevels : XInsert(element, level)
    \/ \E element \in Elements : XErase(element)

SpecX == InitX /\ [][NextX]_vars

\* C18: once an insert has returned false, every further insert returns
\* false as long as no erase has removed an element; after an erase that
\* returns k >= 1 in such an exhausted arena the next k inserts return true
\* and the (k+1)-th returns false.  With rt.n the number of removed and not
\* yet replaced elements: from the first failure on an insert succeeds
\* exactly when rt.n > 0.
C18_Exhausted ==
    rt.phase \in {"exhausted", "refilling", "refilled"} =>
        \A e \in Elements, level \in DrawnLevels :
            insert(mem, e, level).ret <=> rt.n > 0

\* an insert failed, an erase then removed elements, as many inserts
\* succeeded, and the arena is exhausted again
C18_Witness ==
    /\ rt.phase = "refilled"
    /\ rt.n = 0
    /\ mem.free_list = 0
    /\ mem.sl_info.length >= 2
    /\ \A e \in Elements : ~insert(mem, e, 1).ret

\* the offsets of the slots carved so far: (alloc_size - header_size) /
\* node_size of them, from header_size on
Carved(m) ==
    {m.header_size + k * m.node_size :
        k \in 0..((m.alloc_size - m.header_size) \div m.node_size - 1)}

\* C19: at every point the carved slots, (alloc_size - header_size) /
\* node_size of them, fall into exactly three disjoint groups: the head
\* sentinel, the `length` nodes linked at the base level, and the nodes
\* chained from free_list; the free list has no cycle and holds neither the
\* head nor a linked node, so no slot is handed out again while it is live.
C19_Partition ==
    Initialized =>
        LET head == mem.sl_info.head
            chain == BaseChain(mem)
            free == FreeRefs(mem)
            carved == Carved(mem)
            a == alloc_node(mem)
        IN  /\ (mem.alloc_size - mem.header_size) % mem.node_size = 0
            /\ Len(chain) = mem.sl_info.length
            /\ Cardinality(SeqSet(chain)) = Len(chain)
            /\ Cardinality(SeqSet(free)) = Len(free)
            /\ {head} \cup SeqSet(chain) \cup SeqSet(free) = carved
            /\ 1 + Len(chain) + Len(free) = Cardinality(carved)
            /\ a.pos # 0 => a.pos \notin {head} \cup SeqSet(chain)

\* every slot is carved, one node is linked and two are on the free list
C19_Witness ==
    /\ Initialized
    /\ mem.alloc_size = max_mem_size(MaxLen)
    /\ mem.sl_info.length = 1
    /\ Len(FreeRefs(mem)) = 2
    /\ alloc_node(mem).pos = mem.free_list

(***************************************************************************)
(* Two runs side by side: the same calls with the same arguments on mem    *)
(* and on twin, each insert drawing its own level in either run.           *)
(***************************************************************************)
InitT ==
    /\ mem = ZeroMem
    /\ twin = ZeroMem
    /\ inst = [h \in Handles |-> [mem_header_ |-> NULL]]
    /\ rt = [phase |-> "init", n |-> 0, vals |-> {}]

TInitRaw(mem_size, max_sl_len) ==
    LET r == init(mem, inst[1], BUF, mem_size, max_sl_len, TRUE)
        t == init(twin, inst[1], BUF, mem_size, max_sl_len, TRUE)
    IN
    /\ rt.phase = "init"
    /\ r.ret
    /\ mem' = r.m
    /\ twin' = t.m
    /\ inst' = [inst EXCEPT ![1] = r.self]
    /\ rt' = [rt EXCEPT !.phase = "run"]

TInsert(element, level, twin_level) ==
    /\ rt.phase = "run"
    /\ Usable(1)
    /\ mem' = DeadBytes(insert(mem, element, level).m)
    /\ twin' = DeadBytes(insert(twin, element, twin_level).m)
    /\ UNCHANGED <<inst, rt>>

TErase(element) ==
    /\ rt.phase = "run"
    /\ Usable(1)
    /\ mem' = DeadBytes(erase(mem, element).m)
    /\ twin' = DeadBytes(erase(twin, element).m)
    /\ UNCHANGED <<inst, rt>>

NextT ==
    \/ \E mem_size \in MemSizes, max_sl_len \in SlLens : TInitRaw(mem_size, max_sl_len)
    \/ \E element \in Elements, level \in DrawnLevels, twin_level \in DrawnLevels :
            TInsert(element, level, twin_level)
    \/ \E element \in Elements : TErase(element)

SpecT == InitT /\ [][NextT]_vars

\* what the two runs show apart from get_index: the next return values, the
\* length and the base-level sequence, by element and by node (the nodes
\* tell duplicates apart)
SameButIndex ==
    /\ \A e \in Elements : erase(mem, e).ret = erase(twin, e).ret
    /\ \A e \in Elements, level \in DrawnLevels, twin_level \in DrawnLevels :
            insert(mem, e, level).ret = insert(twin, e, twin_level).ret
    /\ mem.sl_info.length = twin.sl_info.length
    /\ BaseElems(mem) = BaseElems(twin)
    /\ BaseRefs(mem) = BaseRefs(twin)

\* C20: two runs that apply the same insert and erase calls from a raw init
\* but draw different levels show the same at every step: the same insert
\* and erase return values, the same length, the same base-level sequence
\* (the order among duplicates included) and the same get_index value for
\* every element.
C20_LevelsUnseen ==
    rt.phase = "run" =>
        /\ SameButIndex
        /\ \A e \in Elements : get_index(mem, e) = get_index(twin, e)

=============================================================================
